---- MODULE Spec2Model ----
(***************************************************************************)
(* Model of check_systemd_units.py, the Nagios check of systemd units.     *)
(*                                                                         *)
(* Text on which the code works character by character (unit names,       *)
(* patterns, the names of the Problem class, the output of "systemctl      *)
(* show") is a sequence of one-character strings; text that is only        *)
(* concatenated (the printed message) is a string.                         *)
(***************************************************************************)
EXTENDS Integers, Sequences, FiniteSets, TLC

VARIABLES
    pc,           \* position of main: "start", "process", "done", or "idle"
    args,         \* parse_args(): [critical_units, ignored_units]
    output,       \* main: the lines of the unit listing, split into fields
    line,         \* process: index of the next line of output
    criticals,    \* process: list of (problem, unit_name)
    warnings,     \* process: list of (problem, unit_name)
    printed,      \* what main printed
    exit_code,    \* what main passed to exit(), None before
    classified,   \* history: check_unit's return value for each line done
    lookups,      \* history: the get_exit_code calls made so far
    list_status,  \* history: return code of "systemctl list-units", None before
    fn,           \* which function a single-function run applies, or "main"
    fn_args,      \* the arguments of that function
    fn_ret        \* <<its return value>>, Pending before the call

vars == <<pc, args, output, line, criticals, warnings, printed, exit_code,
          classified, lookups, list_status, fn, fn_args, fn_ret>>

----------------------------------------------------------------------------
(* Bounds *)

MaxUnits == 3        \* lines in the unit listing (never more than UnitNames)
MaxFindings == 4     \* length of the list given to get_message
MaxTextLen == 3      \* length of the patterns and unit names given to match_unit

----------------------------------------------------------------------------
(* Python values *)

\* None, as returned by check_unit and as the initial last_problem and
\* exit_code; it differs from every Problem ordinal and every exit code.
None == -1

\* fn_ret before the call; <<value>> after it
Pending == <<>>

\* class Problem: the ordinals, from more important to less
Problem == [failed |-> 0,
            activating_auto_restart |-> 1,
            not_loaded_but_not_inactive |-> 2,
            not_loaded_but_not_dead |-> 3,
            dead |-> 4,
            not_loaded |-> 5]

\* The attribute names of class Problem, character by character
ProblemAttr ==
    [failed |-> <<"f","a","i","l","e","d">>,
     activating_auto_restart |->
        <<"a","c","t","i","v","a","t","i","n","g","_","a","u","t","o","_",
          "r","e","s","t","a","r","t">>,
     not_loaded_but_not_inactive |->
        <<"n","o","t","_","l","o","a","d","e","d","_","b","u","t","_",
          "n","o","t","_","i","n","a","c","t","i","v","e">>,
     not_loaded_but_not_dead |->
        <<"n","o","t","_","l","o","a","d","e","d","_","b","u","t","_",
          "n","o","t","_","d","e","a","d">>,
     dead |-> <<"d","e","a","d">>,
     not_loaded |-> <<"n","o","t","_","l","o","a","d","e","d">>]

ProblemValues == {Problem[k] : k \in DOMAIN Problem}

----------------------------------------------------------------------------
(* String methods *)

\* the str made of the characters of s
RECURSIVE Str(_)
Str(s) == IF s = <<>> THEN "" ELSE Head(s) \o Str(Tail(s))

\* s.replace(old, new) for single characters
Replace(s, old, new) == [i \in 1..Len(s) |-> IF s[i] = old THEN new ELSE s[i]]

\* s.endswith(suffix)
EndsWith(s, suffix) ==
    /\ Len(s) >= Len(suffix)
    /\ SubSeq(s, Len(s) - Len(suffix) + 1, Len(s)) = suffix

\* c in s
Contains(s, c) == \E i \in 1..Len(s) : s[i] = c

\* s.split(sep, 1)[0]: the part before the first sep, all of s without one
SplitFirst(s, sep) ==
    IF Contains(s, sep)
    THEN LET k == CHOOSE i \in 1..Len(s) :
                      s[i] = sep /\ \A j \in 1..(i - 1) : s[j] # sep
         IN SubSeq(s, 1, k - 1)
    ELSE s

\* s[:-n]
DropLast(s, n) == SubSeq(s, 1, Len(s) - n)

\* s[n:]
DropFirst(s, n) == SubSeq(s, n + 1, Len(s))

DigitChars == <<"0","1","2","3","4","5","6","7","8","9">>

Whitespace == {" ", "\n"}

\* s.strip()
RECURSIVE Strip(_)
Strip(s) ==
    IF s = <<>> THEN s
    ELSE IF Head(s) \in Whitespace THEN Strip(Tail(s))
    ELSE IF s[Len(s)] \in Whitespace THEN Strip(DropLast(s, 1))
    ELSE s

DigitValue(c) == (CHOOSE d \in 1..10 : DigitChars[d] = c) - 1

\* int(s) for a decimal numeral surrounded by whitespace
RECURSIVE IntOfDigits(_)
IntOfDigits(s) ==
    IF s = <<>> THEN 0
    ELSE 10 * IntOfDigits(DropLast(s, 1)) + DigitValue(s[Len(s)])

Int_(s) == IntOfDigits(Strip(s))

\* the decimal numeral of a natural number, as systemctl and str() print it
RECURSIVE Decimal(_)
Decimal(n) ==
    IF n < 10 THEN <<DigitChars[n + 1]>>
    ELSE Decimal(n \div 10) \o <<DigitChars[(n % 10) + 1]>>

----------------------------------------------------------------------------
(* The commands run with check_output *)

\* 'ExecMainStatus='
ExecMainStatusKey ==
    <<"E","x","e","c","M","a","i","n","S","t","a","t","u","s","=">>

\* what "systemctl show -p ExecMainStatus <unit>" writes for a main process
\* that exited with the given status
ShowOutput(status) == ExecMainStatusKey \o Decimal(status) \o <<"\n">>

\* exit statuses of a unit's main process
ExitStatuses == {0, 1, 203}

\* What check_output can meet when it runs "systemctl show": the command
\* exits with 0 and has written the property, or it exits with non-zero.
ShowReplies ==
    {[returncode |-> 0, stdout |-> ShowOutput(s)] : s \in ExitStatuses}
        \cup {[returncode |-> 1, stdout |-> <<>>]}

\* non-zero exit statuses of "systemctl list-units"
ListFailures == {1, 4}

\* str(error) of the CalledProcessError raised for a return code
ErrorText(returncode) ==
    "Command returned non-zero exit status " \o Str(Decimal(returncode))

----------------------------------------------------------------------------
(* match_unit *)

match_unit_any_unit(pattern, unit) ==
    IF EndsWith(pattern, <<"@", "*">>)
    THEN DropLast(pattern, 2) = SplitFirst(unit, "@")
    ELSE pattern = unit

match_unit(pattern, unit) ==
    IF EndsWith(pattern, <<"@", "*">>) /\ Contains(unit, "@")
    THEN DropLast(pattern, 2) = SplitFirst(unit, "@")
    ELSE pattern = unit

----------------------------------------------------------------------------
(* get_exit_code: reply is what check_output meets for the command *)

get_exit_code_zero_on_error(unit_name, reply) ==
    IF reply.returncode # 0
    THEN 0
    ELSE Int_(DropFirst(reply.stdout, Len(ExecMainStatusKey)))

get_exit_code(unit_name, reply) ==
    IF reply.returncode # 0
    THEN -1
    ELSE Int_(DropFirst(reply.stdout, Len(ExecMainStatusKey)))

----------------------------------------------------------------------------
(* check_unit: returns the problem (None without one) together with the   *)
(* get_exit_code calls it made, each with the value the call returned      *)

Returns(problem) == [problem |-> problem, calls |-> <<>>]

Call(unit_name, reply) ==
    [unit |-> unit_name,
     error |-> reply.returncode # 0,
     code |-> get_exit_code(unit_name, reply)]

check_unit_dead_first(unit_name, serv_load, serv_active, serv_sub, reply) ==
    IF serv_load # "loaded"
    THEN IF serv_active # "inactive"
         THEN Returns(Problem.not_loaded_but_not_inactive)
         ELSE IF serv_sub # "dead"
         THEN Returns(Problem.not_loaded_but_not_dead)
         ELSE Returns(Problem.not_loaded)
    ELSE IF serv_sub = "dead"
    THEN Returns(Problem.dead)
    ELSE IF serv_active = "failed"
    THEN Returns(Problem.failed)
    ELSE IF serv_sub = "auto-restart"
    THEN [problem |-> IF get_exit_code(unit_name, reply) # 0
                      THEN Problem.activating_auto_restart
                      ELSE None,
          calls |-> <<Call(unit_name, reply)>>]
    ELSE IF serv_sub = "failed"
    THEN Returns(Problem.failed)
    ELSE Returns(None)

check_unit_retries(unit_name, serv_load, serv_active, serv_sub, reply) ==
    IF serv_load # "loaded"
    THEN IF serv_active # "inactive"
         THEN Returns(Problem.not_loaded_but_not_inactive)
         ELSE IF serv_sub # "dead"
         THEN Returns(Problem.not_loaded_but_not_dead)
         ELSE Returns(Problem.not_loaded)
    ELSE IF serv_active = "failed"
    THEN Returns(Problem.failed)
    ELSE IF serv_sub = "auto-restart"
    THEN [problem |-> IF get_exit_code(unit_name, reply) # 0
                      THEN Problem.activating_auto_restart
                      ELSE None,
          calls |-> IF get_exit_code(unit_name, reply) = -1
                    THEN <<Call(unit_name, reply), Call(unit_name, reply)>>
                    ELSE <<Call(unit_name, reply)>>]
    ELSE IF serv_sub = "dead"
    THEN Returns(Problem.dead)
    ELSE IF serv_sub = "failed"
    THEN Returns(Problem.failed)
    ELSE Returns(None)

check_unit(unit_name, serv_load, serv_active, serv_sub, reply) ==
    IF serv_load # "loaded"
    THEN IF serv_active # "inactive"
         THEN Returns(Problem.not_loaded_but_not_inactive)
         ELSE IF serv_sub # "dead"
         THEN Returns(Problem.not_loaded_but_not_dead)
         ELSE Returns(Problem.not_loaded)
    ELSE IF serv_active = "failed"
    THEN Returns(Problem.failed)
    ELSE IF serv_sub = "auto-restart"
    THEN [problem |-> IF get_exit_code(unit_name, reply) # 0
                      THEN Problem.activating_auto_restart
                      ELSE None,
          calls |-> <<Call(unit_name, reply)>>]
    ELSE IF serv_sub = "dead"
    THEN Returns(Problem.dead)
    ELSE IF serv_sub = "failed"
    THEN Returns(Problem.failed)
    ELSE Returns(None)

----------------------------------------------------------------------------
(* get_message *)

\* the dict problem_names: ordinal -> attribute name with '_' as ' '
problem_names ==
    [v \in ProblemValues |->
        Str(Replace(ProblemAttr[CHOOSE k \in DOMAIN Problem : Problem[k] = v],
                    "_", " "))]

\* the for loop of get_message, from the given message and last_problem
RECURSIVE MessageLoop(_, _, _)
MessageLoop(problems, message, last_problem) ==
    IF problems = <<>> THEN message
    ELSE LET problem == Head(problems)[1]
             unit == Head(problems)[2]
             labelled == IF problem # last_problem
                         THEN message \o problem_names[problem] \o ": "
                         ELSE message
         IN MessageLoop(Tail(problems), labelled \o Str(unit) \o " ", problem)

get_message_last_failed(problems) == MessageLoop(problems, "", Problem.failed)

get_message(problems) == MessageLoop(problems, "", None)

----------------------------------------------------------------------------
(* process: one pass of the for loop *)

\* any(match_unit(p, unit_name) for p in args.critical_units)
is_critical(unit_name, critical_units) ==
    \E k \in 1..Len(critical_units) : match_unit(critical_units[k], unit_name)

\* lines 120-132: where the loop puts (problem, unit_name)
place_keeps_dead(lists, problem, unit_name, critical) ==
    IF problem = None
    THEN lists
    ELSE IF ~critical /\ problem > Problem.dead
    THEN lists
    ELSE IF critical /\ problem < Problem.dead
    THEN [lists EXCEPT !.criticals = Append(@, <<problem, unit_name>>)]
    ELSE [lists EXCEPT !.warnings = Append(@, <<problem, unit_name>>)]

place_in_front(lists, problem, unit_name, critical) ==
    IF problem = None
    THEN lists
    ELSE IF ~critical /\ problem >= Problem.dead
    THEN lists
    ELSE IF critical /\ problem < Problem.dead
    THEN [lists EXCEPT !.criticals = <<<<problem, unit_name>>>> \o @]
    ELSE [lists EXCEPT !.warnings = <<<<problem, unit_name>>>> \o @]

place(lists, problem, unit_name, critical) ==
    IF problem = None
    THEN lists
    ELSE IF ~critical /\ problem >= Problem.dead
    THEN lists
    ELSE IF critical /\ problem < Problem.dead
    THEN [lists EXCEPT !.criticals = Append(@, <<problem, unit_name>>)]
    ELSE [lists EXCEPT !.warnings = Append(@, <<problem, unit_name>>)]

----------------------------------------------------------------------------
(* main: what it prints and the exit code *)

main_report_warnings_first(crits, warns) ==
    IF crits # <<>>
    THEN [printed |-> "CRITICAL: " \o get_message(warns \o crits),
          exit_code |-> 2]
    ELSE IF warns # <<>>
    THEN [printed |-> "WARNING: " \o get_message(warns), exit_code |-> 1]
    ELSE [printed |-> "OK", exit_code |-> 0]

\* the else branch of the try statement
main_report(crits, warns) ==
    IF crits # <<>>
    THEN [printed |-> "CRITICAL: " \o get_message(crits \o warns),
          exit_code |-> 2]
    ELSE IF warns # <<>>
    THEN [printed |-> "WARNING: " \o get_message(warns), exit_code |-> 1]
    ELSE [printed |-> "OK", exit_code |-> 0]

main_unknown_as_critical(returncode) ==
    [printed |-> "CRITICAL: " \o ErrorText(returncode), exit_code |-> 2]

\* the except branch of the try statement
main_unknown(returncode) ==
    [printed |-> "UNKNOWN: " \o ErrorText(returncode), exit_code |-> 3]

----------------------------------------------------------------------------
(* The host: units and their states *)

UnitNames == {<<"a">>, <<"b", "@", "1">>, <<"b", "@", "2">>}

LoadStates == {"loaded", "not-found"}

\* (active state, sub-state) of a line of the listing; with the unit name
\* and the load state they are line.strip().split(None, 4)[0:4]
ActiveSubStates ==
    {<<"active", "running">>, <<"failed", "failed">>,
     <<"activating", "auto-restart">>, <<"inactive", "dead">>,
     <<"inactive", "failed">>}

\* the sequences over S of length at most n
SeqsUpTo(S, n) == UNION {[1..k -> S] : k \in 0..n}

\* systemctl lists a unit once: the orders in which n units can be listed
NameOrders(n) ==
    {names \in [1..n -> UnitNames] :
        \A j, k \in 1..n : j # k => names[j] # names[k]}

Listings ==
    UNION {{[k \in 1..n |-> <<names[k], states[k][1], states[k][2][1],
                              states[k][2][2]>>] :
                names \in NameOrders(n),
                states \in [1..n -> LoadStates \X ActiveSubStates]} :
           n \in 0..MaxUnits}

\* the values of -s and -i
CriticalUnitArgs ==
    {<<>>, <<<<"a">>>>, <<<<"b", "@", "*">>>>, <<<<"a">>, <<"b", "@", "*">>>>}

IgnoredUnitArgs == {<<>>, <<<<"a">>>>}

----------------------------------------------------------------------------
(* A run of main *)

NoCall == <<>>

Init ==
    /\ pc = "start"
    /\ args \in [critical_units : CriticalUnitArgs,
                 ignored_units : IgnoredUnitArgs]
    /\ output = <<>>
    /\ line = 1
    /\ criticals = <<>>
    /\ warnings = <<>>
    /\ printed = ""
    /\ exit_code = None
    /\ classified = <<>>
    /\ lookups = <<>>
    /\ list_status = None
    /\ fn = "main"
    /\ fn_args = NoCall
    /\ fn_ret = Pending

\* check_output raises CalledProcessError; main prints UNKNOWN and exits
MainListFails ==
    /\ fn = "main" /\ pc = "start"
    /\ \E returncode \in ListFailures :
          /\ list_status' = returncode
          /\ printed' = main_unknown(returncode).printed
          /\ exit_code' = main_unknown(returncode).exit_code
    /\ pc' = "done"
    /\ UNCHANGED <<args, output, line, criticals, warnings, classified,
                   lookups, fn, fn_args, fn_ret>>

\* check_output returns the listing; main calls process
MainListUnits ==
    /\ fn = "main" /\ pc = "start"
    /\ output' \in Listings
    /\ list_status' = 0
    /\ line' = 1
    /\ criticals' = <<>>
    /\ warnings' = <<>>
    /\ pc' = "process"
    /\ UNCHANGED <<args, printed, exit_code, classified, lookups,
                   fn, fn_args, fn_ret>>

\* one pass of the for loop of process
ProcessLine ==
    /\ fn = "main" /\ pc = "process"
    /\ line <= Len(output)
    /\ \E reply \in ShowReplies :
          LET unit_split == output[line]
              unit_name == unit_split[1]
              checked == check_unit(unit_split[1], unit_split[2],
                                    unit_split[3], unit_split[4], reply)
              placed == place([criticals |-> criticals, warnings |-> warnings],
                              checked.problem, unit_name,
                              is_critical(unit_name, args.critical_units))
          IN /\ criticals' = placed.criticals
             /\ warnings' = placed.warnings
             /\ classified' = Append(classified, checked.problem)
             /\ lookups' = lookups \o
                   [k \in 1..Len(checked.calls) |->
                       [line |-> line, unit |-> checked.calls[k].unit,
                        error |-> checked.calls[k].error,
                        code |-> checked.calls[k].code]]
    /\ line' = line + 1
    /\ UNCHANGED <<pc, args, output, printed, exit_code, list_status,
                   fn, fn_args, fn_ret>>

\* process returns; main prints the result and exits
MainReport ==
    /\ fn = "main" /\ pc = "process"
    /\ line > Len(output)
    /\ printed' = main_report(criticals, warnings).printed
    /\ exit_code' = main_report(criticals, warnings).exit_code
    /\ pc' = "done"
    /\ UNCHANGED <<args, output, line, criticals, warnings, classified,
                   lookups, list_status, fn, fn_args, fn_ret>>

Next == MainListFails \/ MainListUnits \/ ProcessLine \/ MainReport

Spec == Init /\ [][Next]_vars

----------------------------------------------------------------------------
(* Runs of a single function on arguments drawn from bounded sets *)

\* main does not run
Idle ==
    /\ pc = "idle"
    /\ args = [critical_units |-> <<>>, ignored_units |-> <<>>]
    /\ output = <<>>
    /\ line = 1
    /\ criticals = <<>>
    /\ warnings = <<>>
    /\ printed = ""
    /\ exit_code = None
    /\ classified = <<>>
    /\ lookups = <<>>
    /\ list_status = None

MainVars == <<pc, args, output, line, criticals, warnings, printed,
              exit_code, classified, lookups, list_status>>

\* patterns and unit names over the characters match_unit tells apart
TextChars == {"a", "b", "@", "*"}

Texts == SeqsUpTo(TextChars, MaxTextLen)

InitMatch ==
    /\ Idle
    /\ fn = "match_unit"
    /\ fn_args \in Texts \X Texts
    /\ fn_ret = Pending

CallMatchUnit ==
    /\ fn = "match_unit" /\ fn_ret = Pending
    /\ fn_ret' = <<match_unit(fn_args[1], fn_args[2])>>
    /\ UNCHANGED <<MainVars, fn, fn_args>>

SpecMatch == InitMatch /\ [][CallMatchUnit]_vars

\* every state systemctl prints, and one it does not
AllLoadStates == {"loaded", "not-found", "masked", "other"}

AllActiveStates == {"active", "inactive", "failed", "activating", "other"}

AllSubStates == {"running", "dead", "failed", "auto-restart", "exited", "other"}

InitCheckUnit ==
    /\ Idle
    /\ fn = "check_unit"
    /\ fn_args \in UnitNames \X AllLoadStates \X AllActiveStates
                      \X AllSubStates \X ShowReplies
    /\ fn_ret = Pending

CallCheckUnit ==
    /\ fn = "check_unit" /\ fn_ret = Pending
    /\ fn_ret' = <<check_unit(fn_args[1], fn_args[2], fn_args[3], fn_args[4],
                              fn_args[5])>>
    /\ UNCHANGED <<MainVars, fn, fn_args>>

SpecCheckUnit == InitCheckUnit /\ [][CallCheckUnit]_vars

MessageUnits == {<<"x">>, <<"y", "@", "1">>}

InitMessage ==
    /\ Idle
    /\ fn = "get_message"
    /\ fn_args \in SeqsUpTo(ProblemValues \X MessageUnits, MaxFindings)
    /\ fn_ret = Pending

CallGetMessage ==
    /\ fn = "get_message" /\ fn_ret = Pending
    /\ fn_ret' = <<get_message(fn_args)>>
    /\ UNCHANGED <<MainVars, fn, fn_args>>

SpecMessage == InitMessage /\ [][CallGetMessage]_vars

----------------------------------------------------------------------------
(* Properties of check_unit *)

\* the looked-up exit status is non-zero: the query failed, or systemctl
\* printed a status other than 0
LookupNonZero(reply) ==
    reply.returncode # 0 \/ reply.stdout # ShowOutput(0)

\* the rows of the rule table that apply to a triple
RuleTable(load, active, sub, nonzero) ==
    {p \in ProblemValues :
        \/ p = 2 /\ load # "loaded" /\ active # "inactive"
        \/ p = 3 /\ load # "loaded" /\ active = "inactive" /\ sub # "dead"
        \/ p = 5 /\ load # "loaded" /\ active = "inactive" /\ sub = "dead"
        \/ p = 0 /\ load = "loaded" /\ active = "failed"
        \/ p = 1 /\ load = "loaded" /\ active # "failed"
                 /\ sub = "auto-restart" /\ nonzero
        \/ p = 4 /\ load = "loaded" /\ active # "failed" /\ sub = "dead"
        \/ p = 0 /\ load = "loaded" /\ active # "failed" /\ sub = "failed"}

\* C1: for every (load, active, sub) triple and every result of the
\* exit-status lookup, check_unit returns what the ordered rule table gives:
\* the one Problem of the row that applies, and None when no row applies;
\* no triple gets more than one Problem.
C1_CheckUnitRuleTable ==
    (fn = "check_unit" /\ fn_ret # Pending) =>
        LET rows == RuleTable(fn_args[2], fn_args[3], fn_args[4],
                              LookupNonZero(fn_args[5]))
            problem == fn_ret[1].problem
        IN /\ Cardinality(rows) <= 1
           /\ rows = {} => problem = None
           /\ rows # {} => problem \in rows

\* an auto-restart unit whose main process exited with 203 is reported,
\* and the same call with status 0 would not be
C1_Witness ==
    /\ fn = "check_unit" /\ fn_ret # Pending
    /\ fn_args[2] = "loaded" /\ fn_args[3] = "activating"
    /\ fn_args[4] = "auto-restart"
    /\ fn_args[5] = [returncode |-> 0, stdout |-> ShowOutput(203)]
    /\ fn_ret[1].problem = Problem.activating_auto_restart

----------------------------------------------------------------------------
(* Properties of process *)

\* the lines process has passed
Done == 1..Len(classified)

Critical(j) ==
    \E k \in 1..Len(args.critical_units) :
        match_unit(args.critical_units[k], output[j][1])

Severe == {0, 1, 2, 3}

Benign == {4, 5}

\* where the critical policy puts line j
Policy(j) ==
    IF Critical(j) /\ classified[j] \in Severe THEN "criticals"
    ELSE IF Critical(j) /\ classified[j] \in Benign THEN "warnings"
    ELSE IF ~Critical(j) /\ classified[j] \in Severe THEN "warnings"
    ELSE "dropped"

\* (problem, unit_name) of the lines 1..n that satisfy keep, in line order
RECURSIVE FindingsOf(_, _)
FindingsOf(n, keep) ==
    IF n = 0 THEN <<>>
    ELSE IF keep[n]
    THEN Append(FindingsOf(n - 1, keep), <<classified[n], output[n][1]>>)
    ELSE FindingsOf(n - 1, keep)

Units(list) == {list[k][2] : k \in 1..Len(list)}

\* C2: every line that classifies to a Problem is placed by the critical
\* policy: critical and severe -> criticals; critical and dead/not_loaded ->
\* warnings; not critical and severe -> warnings; not critical and
\* dead/not_loaded -> neither list. criticals holds no unit that matches no
\* critical pattern and is empty when there are no critical patterns.
C2_CriticalPolicy ==
    (fn = "main" /\ pc \in {"process", "done"} /\ list_status = 0) =>
        /\ criticals = FindingsOf(Len(classified),
                           [j \in Done |-> Policy(j) = "criticals"])
        /\ warnings = FindingsOf(Len(classified),
                           [j \in Done |-> Policy(j) = "warnings"])
        /\ \A j \in Done :
              (~Critical(j) /\ classified[j] \in Benign) =>
                  output[j][1] \notin Units(criticals) \cup Units(warnings)
        /\ \A j \in Done : ~Critical(j) => output[j][1] \notin Units(criticals)
        /\ args.critical_units = <<>> => criticals = <<>>

\* a run that met a severe critical unit, a demoted critical unit and a
\* dropped non-critical unit
C2_Witness ==
    /\ pc = "done" /\ list_status = 0
    /\ \E j, k, l \in Done :
          /\ Critical(j) /\ classified[j] \in Severe
          /\ Critical(k) /\ classified[k] = Problem.dead
          /\ ~Critical(l) /\ classified[l] = Problem.not_loaded
          /\ output[j][1] \in Units(criticals)
          /\ output[k][1] \in Units(warnings)

\* the elements of whole[1..n] whose pick is want, in order
RECURSIVE Picked(_, _, _, _)
Picked(whole, pick, want, n) ==
    IF n = 0 THEN <<>>
    ELSE IF pick[n] = want
    THEN Append(Picked(whole, pick, want, n - 1), whole[n])
    ELSE Picked(whole, pick, want, n - 1)

\* every element of whole is in exactly one of first and second, and both
\* keep the order of whole
IsSplit(whole, first, second) ==
    \E pick \in [1..Len(whole) -> BOOLEAN] :
        /\ first = Picked(whole, pick, TRUE, Len(whole))
        /\ second = Picked(whole, pick, FALSE, Len(whole))

\* C6 as stated: every line that classifies to a Problem is in exactly one
\* of criticals and warnings, in the order of the listing.
C6_EveryFindingListed ==
    (fn = "main" /\ pc \in {"process", "done"} /\ list_status = 0) =>
        IsSplit(FindingsOf(Len(classified),
                           [j \in Done |-> classified[j] # None]),
                criticals, warnings)

\* a line is reported unless it has no Problem, or is dead or not_loaded
\* and not critical
Reported(j) ==
    /\ classified[j] # None
    /\ Critical(j) \/ classified[j] < Problem.dead

\* C6 (amended): every line that classifies to a Problem and is critical or
\* more severe than dead is in exactly one of criticals and warnings, never
\* in both, and each list keeps the order of the listing; the other lines
\* are in neither list.
C6_ReportedFindingsListedOnce ==
    (fn = "main" /\ pc \in {"process", "done"} /\ list_status = 0) =>
        /\ IsSplit(FindingsOf(Len(classified), [j \in Done |-> Reported(j)]),
                   criticals, warnings)
        /\ Units(criticals) \cap Units(warnings) = {}
        /\ \A j \in Done :
              ~Reported(j) =>
                  output[j][1] \notin Units(criticals) \cup Units(warnings)

\* two warnings after a dropped line, in the order of the listing
C6_Witness ==
    /\ pc = "done" /\ list_status = 0
    /\ Len(output) = 3
    /\ classified[1] = Problem.dead /\ ~Critical(1)
    /\ warnings = <<<<classified[2], output[2][1]>>,
                    <<classified[3], output[3][1]>>>>
    /\ classified[2] # classified[3]

----------------------------------------------------------------------------
(* Properties of main *)

\* C3: when the listing is obtained, main prints 'CRITICAL: ' and the
\* message of criticals followed by warnings and exits with 2 if criticals
\* is not empty; else 'WARNING: ' and the message of warnings and exits
\* with 1 if warnings is not empty; else 'OK' and exits with 0.
C3_ResultFromLists ==
    (fn = "main" /\ pc = "done" /\ list_status = 0) =>
        /\ criticals # <<>> =>
              /\ printed = "CRITICAL: " \o get_message(criticals \o warnings)
              /\ exit_code = 2
        /\ (criticals = <<>> /\ warnings # <<>>) =>
              /\ printed = "WARNING: " \o get_message(warnings)
              /\ exit_code = 1
        /\ (criticals = <<>> /\ warnings = <<>>) =>
              /\ printed = "OK"
              /\ exit_code = 0
        /\ exit_code = 2 => criticals # <<>>
        /\ exit_code = 0 => (criticals = <<>> /\ warnings = <<>>)
        /\ (/\ output = <<<<<<"a">>, "loaded", "failed", "failed">>>>
            /\ args.critical_units = <<<<"a">>>>) =>
              printed = "CRITICAL: failed: a "

\* a critical finding is printed before a warning that precedes it in the
\* listing (and shares its label)
C3_Witness ==
    /\ pc = "done" /\ list_status = 0
    /\ exit_code = 2
    /\ output = <<<<<<"a">>, "loaded", "failed", "failed">>,
                  <<<<"b", "@", "1">>, "loaded", "inactive", "dead">>,
                  <<<<"b", "@", "2">>, "loaded", "failed", "failed">>>>
    /\ args.critical_units = <<<<"b", "@", "*">>>>
    /\ printed = "CRITICAL: failed: b@2 a dead: b@1 "

----------------------------------------------------------------------------
(* Properties of the exit-status lookup *)

Ignored(unit_name) ==
    \E k \in 1..Len(args.ignored_units) :
        match_unit(args.ignored_units[k], unit_name)

\* C4: a unit named by an ignored-unit pattern is in neither criticals nor
\* warnings and its exit status is never looked up.
C4_IgnoredUnitsExcluded ==
    fn = "main" =>
        /\ \A u \in Units(criticals) \cup Units(warnings) : ~Ignored(u)
        /\ \A k \in 1..Len(lookups) : ~Ignored(lookups[k].unit)

\* C5: when the exit-status query of a loaded, not failed, auto-restart unit
\* fails, get_exit_code returns -1, the unit is classified as
\* activating_auto_restart and reported, the remaining lines are processed
\* and main ends with exit code 0, 1 or 2.
C5_FailedLookupIsProblem ==
    fn = "main" =>
        \A k \in 1..Len(lookups) :
            lookups[k].error =>
                LET j == lookups[k].line
                IN /\ lookups[k].code = -1
                   /\ lookups[k].code # 0
                   /\ j \in Done
                   /\ classified[j] = Problem.activating_auto_restart
                   /\ output[j][1] \in Units(criticals) \cup Units(warnings)
                   /\ pc = "done" =>
                         /\ Len(classified) = Len(output)
                         /\ exit_code \in {0, 1, 2}
                         /\ list_status = 0

\* the query fails on the first line and the two lines after it are
\* processed
C5_Witness ==
    /\ pc = "done"
    /\ Len(output) = 3 /\ Len(classified) = 3
    /\ \E k \in 1..Len(lookups) : lookups[k].error /\ lookups[k].line = 1
    /\ classified[3] = Problem.failed
    /\ exit_code = 1

\* C10: the exit status is looked up at most once per line, only for lines
\* with load state 'loaded', active state not 'failed' and sub-state
\* 'auto-restart'; the lookups never outnumber the lines.
C10_LookupOncePerAutoRestart ==
    fn = "main" =>
        /\ \A k \in 1..Len(lookups) :
              LET j == lookups[k].line
              IN /\ j \in Done
                 /\ lookups[k].unit = output[j][1]
                 /\ output[j][2] = "loaded"
                 /\ output[j][3] # "failed"
                 /\ output[j][4] = "auto-restart"
        /\ \A k, m \in 1..Len(lookups) :
              k # m => lookups[k].line # lookups[m].line
        /\ Len(lookups) <= Len(classified)
        /\ Len(classified) <= Len(output)

\* two lookups in a run of three lines, one of them failed
C10_Witness ==
    /\ pc = "done"
    /\ Len(output) = 3
    /\ Len(lookups) = 2
    /\ lookups[1].error /\ ~lookups[2].error
    /\ output[2][4] = "dead"

----------------------------------------------------------------------------
(* Properties of get_message *)

\* the labels: the problem names with spaces for underscores
Label ==
    [p \in ProblemValues |->
        CASE p = 0 -> "failed"
          [] p = 1 -> "activating auto restart"
          [] p = 2 -> "not loaded but not inactive"
          [] p = 3 -> "not loaded but not dead"
          [] p = 4 -> "dead"
          [] p = 5 -> "not loaded"]

\* what the k-th finding adds to the message
Piece(findings, k) ==
    (IF k = 1 \/ findings[k][1] # findings[k - 1][1]
     THEN Label[findings[k][1]] \o ": "
     ELSE "")
        \o Str(findings[k][2]) \o " "

RECURSIVE Pieces(_, _)
Pieces(findings, n) ==
    IF n = 0 THEN "" ELSE Pieces(findings, n - 1) \o Piece(findings, n)

\* C7: get_message emits every unit name once, in list order, followed by
\* a space, with the label and ': ' before it exactly when the finding is
\* the first or its Problem differs from the one before; the empty list
\* gives the empty string.
C7_MessageLabelsOnChange ==
    (fn = "get_message" /\ fn_ret # Pending) =>
        /\ fn_ret[1] = Pieces(fn_args, Len(fn_args))
        /\ fn_args = <<>> => fn_ret[1] = ""
        /\ fn_args = <<<<0, <<"x">>>>, <<0, <<"y", "@", "1">>>>,
                       <<4, <<"x">>>>, <<0, <<"y", "@", "1">>>>>> =>
              fn_ret[1] = "failed: x y@1 dead: x failed: y@1 "

\* the label of failed is emitted again when failed recurs after dead
C7_Witness ==
    /\ fn = "get_message"
    /\ fn_args = <<<<0, <<"x">>>>, <<0, <<"y", "@", "1">>>>,
                   <<4, <<"x">>>>, <<0, <<"y", "@", "1">>>>>>
    /\ fn_ret = <<"failed: x y@1 dead: x failed: y@1 ">>

----------------------------------------------------------------------------
(* Properties of match_unit *)

\* the pattern ends with '@*' and the unit name contains '@'
TemplateCase(pattern, unit) ==
    /\ Len(pattern) >= 2
    /\ pattern[Len(pattern) - 1] = "@"
    /\ pattern[Len(pattern)] = "*"
    /\ \E k \in 1..Len(unit) : unit[k] = "@"

\* the pattern without '@*' is the unit name up to its first '@'
SameTemplate(pattern, unit) ==
    \E k \in 1..Len(unit) :
        /\ unit[k] = "@"
        /\ \A j \in 1..(k - 1) : unit[j] # "@"
        /\ Len(pattern) - 2 = k - 1
        /\ \A j \in 1..(k - 1) : pattern[j] = unit[j]

\* C8: match_unit is true exactly when the pattern ends with '@*', the
\* unit name contains '@' and the pattern without '@*' is the unit name before
\* its first '@', or when that case does not apply and pattern and unit
\* name are equal. A '@*' pattern matches no unit of another template and
\* a plain pattern matches no unit of which it is a proper prefix.
C8_MatchUnit ==
    (fn = "match_unit" /\ fn_ret # Pending) =>
        LET pattern == fn_args[1]
            unit == fn_args[2]
        IN /\ fn_ret[1] <=>
                 \/ TemplateCase(pattern, unit) /\ SameTemplate(pattern, unit)
                 \/ ~TemplateCase(pattern, unit) /\ pattern = unit
           /\ (TemplateCase(pattern, unit) /\ ~SameTemplate(pattern, unit))
                 => ~fn_ret[1]
           /\ (/\ ~TemplateCase(pattern, unit)
               /\ Len(pattern) < Len(unit)
               /\ pattern = SubSeq(unit, 1, Len(pattern))) => ~fn_ret[1]

\* 'a@*' matches the instance 'a@b'
C8_Witness ==
    /\ fn = "match_unit"
    /\ fn_args = <<<<"a", "@", "*">>, <<"a", "@", "b">>>>
    /\ fn_ret = <<TRUE>>

====
